---------------------------- MODULE Spec2Model ----------------------------
(***************************************************************************)
(* FaceFrame python backend: the entity store (database.py), the          *)
(* incremental directory scanner (scanner.py), the identity clusterer     *)
(* (clusterer.py) and the command session that runs scans on a background *)
(* thread (main.py).                                                       *)
(*                                                                         *)
(* One root directory is modelled.  Its index lives at                    *)
(* <root>/.faceframe/index.db; every Database object opened on the root   *)
(* reads and writes the one store `db`.  Each sqlite statement is atomic; *)
(* a synchronous command runs on the command loop's thread, so it is one  *)
(* step of the loop, while a scan thread takes one step per store or      *)
(* provider call and interleaves with the loop.                           *)
(*                                                                         *)
(* Not modelled: GET_PROVIDERS and CLEAR_INDEX (no claim is about them),  *)
(* image decoding and the detection network (the provider's result per    *)
(* image is an input), log lines written to stderr.                       *)
(***************************************************************************)
EXTENDS Integers, Sequences, FiniteSets, TLC

\* ------------------------------------------------------------------ bounds

\* Image files in the scanned directory.
NumFiles == 3
\* Command lines the session reads before its input ends.
MaxCmds == 4
\* SCAN commands (scan threads) in one session.
MaxScans == 2
\* Face rows already in index.db when a clustering session starts.
MaxRows == 4
\* Command lines a clustering session reads.
MaxClusterCmds == 2
\* Modification times a file takes: MaxMtime - 1 writes to the directory.
MaxMtime == 2
\* Command lines read by a session in which files disappear.
MaxFaultCmds == 2
\* Command lines read by a session that starts scans on top of each other.
MaxOverlapCmds == 3

\* -------------------------------------------------------- program constants

\* DBSCAN(eps=0.5, min_samples=2): eps as the fraction EpsNum / EpsDen.
EpsNum == 1
EpsDen == 2
MinSamples == 2
\* labels_ value of a point in no cluster.
NoiseLabel == -1

\* --------------------------------------------------------------- embeddings

\* A stored embedding column is JSON text of a float vector, or something
\* json.loads / np.array rejects (BadEmbedding).  Vectors are integer pairs:
\* only their directions matter after normalisation.
EA == <<1, 0>>
EB == <<2, 1>>
EC == <<1, 1>>
ED == <<0, 1>>

\* json.dumps(face['embedding']): the text stored in faces.embedding.
JsonDumps(v) == <<"json", v>>
\* A stored embedding that json.loads / np.array rejects, or whose type is
\* neither str nor bytes.
BadEmbedding == <<"junk">>
\* np.array(json.loads(emb_data), dtype=np.float32) returns (no exception).
Parses(s) == s[1] = "json"
JsonLoads(s) == s[2]

Dot(a, b) == a[1] * b[1] + a[2] * b[2]

\* Whether ||a/|a| - b/|b||| <= eps, with a zero vector left as it is
\* (norms[norms == 0] = 1).  For unit vectors the squared distance is
\* 2 - 2 cos, so the test is cos >= 1 - eps^2/2 = CosNum / CosDen.
CosDen == 2 * EpsDen * EpsDen
CosNum == CosDen - EpsNum * EpsNum
WithinEps(a, b) ==
    LET na == Dot(a, a)
        nb == Dot(b, b)
        d  == Dot(a, b)
    IN  IF na = 0 /\ nb = 0 THEN TRUE
        ELSE IF na = 0 \/ nb = 0 THEN EpsDen * EpsDen <= EpsNum * EpsNum
        ELSE d >= 0 /\ d * d * CosDen * CosDen >= CosNum * CosNum * na * nb

\* ------------------------------------------------------------------- DBSCAN

\* Indices within eps of point i, i itself included.
Neighborhood(X, i) == {j \in 1..Len(X) : WithinEps(X[i], X[j])}

\* Variant: a point is core with one neighbour fewer.
IsCoreAlone(X, i) == Cardinality(Neighborhood(X, i)) >= MinSamples - 1
\* min_samples counts the point itself.
IsCore(X, i) == Cardinality(Neighborhood(X, i)) >= MinSamples

\* The points the depth-first expansion from a core point labels: the still
\* unlabelled points reachable through neighbourhoods of core points.
RECURSIVE Grow(_, _, _)
Grow(X, lab, S) ==
    LET T == S \cup {j \in 1..Len(X) :
                       /\ lab[j] = NoiseLabel
                       /\ \E i \in S : IsCore(X, i) /\ j \in Neighborhood(X, i)}
    IN  IF T = S THEN S ELSE Grow(X, lab, T)

\* Points are visited in index order; each unlabelled core point opens the
\* next label.
RECURSIVE DbscanInner(_, _, _, _)
DbscanInner(X, lab, i, label_num) ==
    IF i > Len(X) THEN lab
    ELSE IF lab[i] # NoiseLabel \/ ~IsCore(X, i)
         THEN DbscanInner(X, lab, i + 1, label_num)
         ELSE LET S == Grow(X, lab, {i})
              IN  DbscanInner(X,
                              [j \in 1..Len(X) |-> IF j \in S THEN label_num ELSE lab[j]],
                              i + 1, label_num + 1)

DBSCAN(X) == DbscanInner(X, [j \in 1..Len(X) |-> NoiseLabel], 1, 0)

\* ------------------------------------------------------------- entity store

\* person_id IS NULL.  Row ids start at 1 and the handlers reject a falsy id,
\* so 0 never names a person.
NoPerson == 0
\* thumbnail_path IS NULL.
NoThumbnail == <<>>

\* The tables _init_db creates, empty.  seq is sqlite_sequence for persons
\* (AUTOINCREMENT never reuses an id); faces are never deleted, so a face's
\* id is its position.  files maps each scanned path to its row; faces and
\* persons are in rowid order, the order SELECT returns them in.
EmptyDb == [files |-> <<>>, faces |-> <<>>, persons |-> <<>>, seq |-> 0]

\* Variant: `row[0] > modified_time` for `==`.
FileExistsIfNewer(d, path, modified_time) ==
    /\ path \in DOMAIN d.files
    /\ d.files[path].modified_time > modified_time
\* SELECT modified_time FROM files WHERE path = ?; row and row[0] == mtime.
FileExists(d, path, modified_time) ==
    /\ path \in DOMAIN d.files
    /\ d.files[path].modified_time = modified_time

\* Variant: the row is written without the modification time.
AddFileWithoutMtime(d, path, hash_val, mtime) ==
    [d EXCEPT !.files =
        [p \in (DOMAIN d.files) \cup {path} |->
            IF p = path THEN [hash |-> hash_val, modified_time |-> 0]
            ELSE d.files[p]]]
\* INSERT OR REPLACE INTO files: path is the primary key.
AddFile(d, path, hash_val, mtime) ==
    [d EXCEPT !.files =
        [p \in (DOMAIN d.files) \cup {path} |->
            IF p = path THEN [hash |-> hash_val, modified_time |-> mtime]
            ELSE d.files[p]]]

\* Variant: the file's earlier rows are deleted before the INSERT.
AddFacesReplacing(d, file_path, faces) ==
    LET Other(row) == row.file_path # file_path
        kept == SelectSeq(d.faces, Other)
    IN  [d EXCEPT !.faces = kept \o
            [i \in 1..Len(faces) |->
                [id |-> Len(d.faces) + i,
                 file_path |-> file_path,
                 embedding |-> JsonDumps(faces[i].embedding),
                 bbox |-> faces[i].bbox,
                 thumbnail_path |-> faces[i].thumbnail,
                 person_id |-> NoPerson]]]
\* Variant: the INSERT names a person.
AddFacesAssigned(d, file_path, faces) ==
    [d EXCEPT !.faces = @ \o
        [i \in 1..Len(faces) |->
            [id |-> Len(d.faces) + i,
             file_path |-> file_path,
             embedding |-> JsonDumps(faces[i].embedding),
             bbox |-> faces[i].bbox,
             thumbnail_path |-> faces[i].thumbnail,
             person_id |-> 1]]]
\* One INSERT per detection; person_id is not in the column list.
AddFaces(d, file_path, faces) ==
    [d EXCEPT !.faces = @ \o
        [i \in 1..Len(faces) |->
            [id |-> Len(d.faces) + i,
             file_path |-> file_path,
             embedding |-> JsonDumps(faces[i].embedding),
             bbox |-> faces[i].bbox,
             thumbnail_path |-> faces[i].thumbnail,
             person_id |-> NoPerson]]]

IsUnclustered(row) == row.person_id = NoPerson
\* Variant: the SELECT without its WHERE clause.
GetAllFaces(d) == d.faces
\* SELECT id, embedding FROM faces WHERE person_id IS NULL
GetUnclusteredFaces(d) == SelectSeq(d.faces, IsUnclustered)
GetUnclusteredFacesInfo(d) == SelectSeq(d.faces, IsUnclustered)

\* Returns the store after the INSERT; the new id is its seq.
CreatePerson(d, name) ==
    [d EXCEPT !.persons = Append(@, [id |-> d.seq + 1, name |-> name,
                                     thumbnail_path |-> NoThumbnail]),
              !.seq = @ + 1]

UpdateFacePerson(d, face_id, person_id) ==
    [d EXCEPT !.faces =
        [i \in 1..Len(d.faces) |->
            IF d.faces[i].id = face_id
            THEN [d.faces[i] EXCEPT !.person_id = person_id]
            ELSE d.faces[i]]]

GetPersons(d) == d.persons

GetPhotosByPerson(d, person_id) ==
    {d.faces[i].file_path : i \in {j \in 1..Len(d.faces) : d.faces[j].person_id = person_id}}

GetPersonFaceCount(d, person_id) ==
    Cardinality({i \in 1..Len(d.faces) : d.faces[i].person_id = person_id})

RenamePerson(d, person_id, new_name) ==
    [d EXCEPT !.persons =
        [i \in 1..Len(d.persons) |->
            IF d.persons[i].id = person_id
            THEN [d.persons[i] EXCEPT !.name = new_name]
            ELSE d.persons[i]]]

\* Variant: the UPDATE without the DELETE.
MergeKeepsRow(d, keep_person_id, merge_person_id) ==
    [d EXCEPT !.faces =
        [i \in 1..Len(d.faces) |->
            IF d.faces[i].person_id = merge_person_id
            THEN [d.faces[i] EXCEPT !.person_id = keep_person_id]
            ELSE d.faces[i]]]
\* UPDATE faces ... WHERE person_id = merge; DELETE FROM persons WHERE id =
\* merge; one commit.  No PRAGMA foreign_keys is ever issued, so sqlite does
\* not enforce the REFERENCES clauses of the schema.
MergePersons(d, keep_person_id, merge_person_id) ==
    LET IsOther(p) == p.id # merge_person_id
    IN  [d EXCEPT !.faces =
            [i \in 1..Len(d.faces) |->
                IF d.faces[i].person_id = merge_person_id
                THEN [d.faces[i] EXCEPT !.person_id = keep_person_id]
                ELSE d.faces[i]],
                  !.persons = SelectSeq(@, IsOther)]

UpdatePersonThumbnail(d, person_id, thumbnail_path) ==
    [d EXCEPT !.persons =
        [i \in 1..Len(d.persons) |->
            IF d.persons[i].id = person_id
            THEN [d.persons[i] EXCEPT !.thumbnail_path = thumbnail_path]
            ELSE d.persons[i]]]

\* ... WHERE person_id = ? AND thumbnail_path IS NOT NULL LIMIT 1
GetFirstFaceThumbnail(d, person_id) ==
    LET Has(row) == row.person_id = person_id /\ row.thumbnail_path # NoThumbnail
        hits == SelectSeq(d.faces, Has)
    IN  IF hits = <<>> THEN NoThumbnail ELSE hits[1].thumbnail_path

PersonIds(d) == {d.persons[i].id : i \in 1..Len(d.persons)}

\* ---------------------------------------------------------------- clusterer

\* The rows of a sequence that satisfy Parses, decoded, in order: the list
\* `embeddings` after the parse loop.
RECURSIVE ParsedEmbeddings(_)
ParsedEmbeddings(rows) ==
    IF rows = <<>> THEN <<>>
    ELSE IF Parses(Head(rows).embedding)
         THEN <<JsonLoads(Head(rows).embedding)>> \o ParsedEmbeddings(Tail(rows))
         ELSE ParsedEmbeddings(Tail(rows))

\* face_ids.append(r[0]) runs before the row's embedding is parsed, and the
\* except / unknown-type branches `continue` without taking it back: face_ids
\* holds the id of EVERY unclustered row, embeddings only the parsed ones.
FaceIds(rows) == [i \in 1..Len(rows) |-> rows[i].id]

\* set(labels) without the noise label.  Labels are 0..k-1 and a set of
\* small non-negative ints iterates in increasing order.
\* Variant: the noise label is not taken out.
UniqueLabelsWithNoise(labels) == {labels[i] : i \in 1..Len(labels)}
UniqueLabels(labels) == {labels[i] : i \in 1..Len(labels)} \ {NoiseLabel}

\* "Person {label + 1}"
PersonName(label) == <<"Person", label + 1>>

\* The loop over unique_labels: one create_person per label, in increasing
\* label order; cluster_map[label] is the id the INSERT returned.
RECURSIVE CreatePersons(_, _, _)
CreatePersons(d, todo, cluster_map) ==
    IF todo = {} THEN [db |-> d, cluster_map |-> cluster_map]
    ELSE LET label == CHOOSE l \in todo : \A m \in todo : l <= m
             d2 == CreatePerson(d, PersonName(label))
         IN  CreatePersons(d2, todo \ {label},
                           [l \in (DOMAIN cluster_map) \cup {label} |->
                               IF l = label THEN d2.seq ELSE cluster_map[l]])

\* for idx, label in enumerate(labels): label != -1 => face_ids[idx] gets
\* cluster_map[label].
RECURSIVE UpdateFaces(_, _, _, _, _)
UpdateFaces(d, labels, face_ids, cluster_map, idx) ==
    IF idx > Len(labels) THEN d
    ELSE IF labels[idx] # NoiseLabel
         THEN UpdateFaces(UpdateFacePerson(d, face_ids[idx], cluster_map[labels[idx]]),
                          labels, face_ids, cluster_map, idx + 1)
         ELSE UpdateFaces(d, labels, face_ids, cluster_map, idx + 1)

\* for label, person_id in cluster_map.items(): thumbnail of the first face.
RECURSIVE SetThumbnails(_, _)
SetThumbnails(d, ids) ==
    IF ids = {} THEN d
    ELSE LET person_id == CHOOSE p \in ids : \A q \in ids : p <= q
             thumbnail == GetFirstFaceThumbnail(d, person_id)
         IN  SetThumbnails(IF thumbnail # NoThumbnail
                           THEN UpdatePersonThumbnail(d, person_id, thumbnail)
                           ELSE d,
                           ids \ {person_id})

\* What one run computes before it writes: the rows it fetched, the two
\* parallel lists and the labels.
ClusterInput(d) ==
    LET rows == GetUnclusteredFaces(d)
        embeddings == ParsedEmbeddings(rows)
    IN  [rows |-> rows,
         face_ids |-> FaceIds(rows),
         embeddings |-> embeddings,
         labels |-> IF Len(embeddings) < 2 THEN <<>> ELSE DBSCAN(embeddings)]

\* Clusterer.run_clustering: the store after the run and the count returned.
RunClustering(d) ==
    LET in == ClusterInput(d)
    IN  IF in.rows = <<>> \/ Len(in.embeddings) < 2
        THEN [db |-> d, count |-> 0]
        ELSE LET made == CreatePersons(d, UniqueLabels(in.labels), <<>>)
                 assigned == UpdateFaces(made.db, in.labels, in.face_ids,
                                         made.cluster_map, 1)
                 new_ids == {made.cluster_map[l] : l \in DOMAIN made.cluster_map}
             IN  [db |-> SetThumbnails(assigned, new_ids),
                  count |-> Cardinality(DOMAIN made.cluster_map)]

\* ------------------------------------------------- directory and provider

Files == 1..NumFiles

\* What FaceProcessor.process_image returns for each image of the directory:
\* one detection per face, or an exception out of the detection backend.
\* Files 1 and 2 show faces within eps of each other, file 3 one far from
\* both; a further file makes the backend raise, the next shows no face.
Detection(e, path, i) ==
    [embedding |-> e, bbox |-> <<0, 0, 1, 1>>, thumbnail |-> <<"thumb", path, i>>]
ProviderRaises(path) == path % 5 = 4
ProcessImage(path) ==
    CASE path % 5 = 1 -> <<Detection(EA, path, 1)>>
      [] path % 5 = 2 -> <<Detection(EB, path, 1)>>
      [] path % 5 = 3 -> <<Detection(ED, path, 1)>>
      [] OTHER -> <<>>

\* A directory with an image that shows a face, one on which the detection
\* backend raises and one that shows no face.
HardFiles == {p \in 1..5 : p = 1 \/ ProviderRaises(p) \/ ProcessImage(p) = <<>>}

\* hashlib.md5 of the file's bytes; "" when the file cannot be read.
CalculateHash(path) == <<"md5", path>>
NoHash == <<>>

\* os.walk of the root: the image files present, in a fixed order.
RECURSIVE Ascending(_)
Ascending(S) ==
    IF S = {} THEN <<>>
    ELSE LET m == CHOOSE x \in S : \A y \in S : x <= y
         IN  <<m>> \o Ascending(S \ {m})

\* -------------------------------------------------------------------- state

VARIABLES
    fs,               \* the root's image files: path -> modification time
    rootExists,       \* the root directory exists
    indexDir,         \* <root>/.faceframe exists, so index.db can be opened
    db,               \* index.db
    abort_scan_flag,  \* main.py's global
    nscans,           \* threads started by SCAN so far
    scan,             \* per scan thread: position and locals of run_scan
    out,              \* stdout, the lines of each scan thread in the order printed
    reply,            \* stdout, the lines the handler of the last command line printed
    alive,            \* the command loop has not left `while True`
    ninput,           \* command lines the client sends in this session
    nread,            \* command lines read
    lastLine,         \* the line the loop read last
    stable,           \* history: a scan ran to completion and nothing changed since it began
    overlap,          \* history: a SCAN was handled while another scan was active
    cancelledEnd,     \* history: a scan ended with status cancelled
    handled           \* history: path -> the mtime its last processing read (0: never)

vars == <<fs, rootExists, indexDir, db, abort_scan_flag, nscans, scan, out,
          reply, alive, ninput, nread, lastLine, stable, overlap, cancelledEnd,
          handled>>

Threads == 1..MaxScans

\* A thread that has not been started.  image_files .. mtime are the locals
\* of scan_directory; the other fields record history for the properties:
\*   broke       the loop was left by `break`
\*   detected    files this scan passed to the provider
\*   undisturbed no modification time changed since this scan began
\*   quiet       this scan began when `stable` held and no scan was active
\*   cancelAt    -1, or the index of the file in flight when CANCEL_SCAN
\*               was handled during this scan (0: no file in flight)
\*   resumed     this scan began after a cancelled scan had ended
IdleThread ==
    [pc |-> "idle", image_files |-> <<>>, idx |-> 0, processed_files |-> 0,
     mtime |-> 0, broke |-> FALSE, detected |-> {}, undisturbed |-> FALSE,
     quiet |-> FALSE, cancelAt |-> -1, resumed |-> FALSE]

Active(t) == scan[t].pc \notin {"idle", "done"}
InFlight(t) == scan[t].pc \in {"check", "add", "detect"}
CurrentFile(t) == scan[t].image_files[scan[t].idx]

\* ------------------------------------------------------------ scan thread

\* os.path.basename(full_path), and the string passed after the loop.
Basename(path) == <<"img", path>>
CompleteMarker == <<"Complete">>

Started(t) == [status |-> "started", scan |-> t]
\* Variant: the count includes the file about to be handled.
ProgressCountsFromOne(t, current, total, file) ==
    [status |-> "progress", scan |-> t, current |-> current + 1, total |-> total,
     file |-> file]
Progress(t, current, total, file) ==
    [status |-> "progress", scan |-> t, current |-> current, total |-> total,
     file |-> file]
Terminal(t, status) == [status |-> status, scan |-> t]
Emit(t, event) == [out EXCEPT ![t] = Append(@, event)]

\* run_scan up to the call of scan_directory: reset the flag, create
\* <root>/.faceframe (and the root with it), build the processor and the
\* scanner (which opens the store), print "started".
RunScanBegin(t) ==
    /\ scan[t].pc = "spawned"
    /\ abort_scan_flag' = FALSE
    /\ rootExists' = TRUE
    /\ indexDir' = TRUE
    /\ out' = Emit(t, Started(t))
    /\ scan' = [scan EXCEPT ![t].pc = "enumerate",
                            ![t].undisturbed = TRUE,
                            ![t].quiet = stable /\ ~overlap,
                            ![t].resumed = cancelledEnd]
    /\ UNCHANGED <<ninput, fs, db, nscans, reply, alive, nread, lastLine, stable, overlap,
                   cancelledEnd, handled>>

\* scan_directory, phase 1: the existence check and the walk.
ScanEnumerate(t) ==
    /\ scan[t].pc = "enumerate"
    /\ scan' = IF ~rootExists
               THEN [scan EXCEPT ![t].pc = "status"]
               ELSE [scan EXCEPT ![t].image_files = Ascending(DOMAIN fs),
                                 ![t].idx = 1,
                                 ![t].processed_files = 0,
                                 ![t].pc = "loop"]
    /\ UNCHANGED <<ninput, fs, rootExists, indexDir, db, abort_scan_flag, nscans, out,
                   reply, alive, nread, lastLine, stable, overlap, cancelledEnd, handled>>

\* Top of the for loop: the loop ends when the list is exhausted; otherwise
\* the progress callback, then abort_check.
ScanBoundary(t) ==
    /\ scan[t].pc = "loop"
    /\ IF scan[t].idx > Len(scan[t].image_files)
       THEN /\ scan' = [scan EXCEPT ![t].pc = "final"]
            /\ out' = out
       ELSE /\ out' = Emit(t, Progress(t, scan[t].processed_files,
                                           Len(scan[t].image_files),
                                           Basename(CurrentFile(t))))
            /\ scan' = IF abort_scan_flag
                       THEN [scan EXCEPT ![t].pc = "final", ![t].broke = TRUE]
                       ELSE [scan EXCEPT ![t].pc = "check"]
    /\ UNCHANGED <<ninput, fs, rootExists, indexDir, db, abort_scan_flag, nscans,
                   reply, alive, nread, lastLine, stable, overlap, cancelledEnd, handled>>

\* os.path.getmtime and db.file_exists.  getmtime raises when the file is
\* gone; the exception leaves scan_directory and run_scan prints "error".
ScanCheck(t) ==
    /\ scan[t].pc = "check"
    /\ LET path == CurrentFile(t)
       IN  IF path \notin DOMAIN fs
           THEN /\ scan' = [scan EXCEPT ![t] =
                               [IdleThread EXCEPT !.pc = "done"]]
                /\ out' = Emit(t, Terminal(t, "error"))
           ELSE /\ out' = out
                /\ scan' = IF FileExists(db, path, fs[path])
                           THEN [scan EXCEPT ![t].processed_files = @ + 1,
                                             ![t].idx = @ + 1,
                                             ![t].pc = "loop"]
                           ELSE [scan EXCEPT ![t].mtime = fs[path],
                                             ![t].pc = "add"]
    /\ UNCHANGED <<ninput, fs, rootExists, indexDir, db, abort_scan_flag, nscans,
                   reply, alive, nread, lastLine, stable, overlap, cancelledEnd, handled>>

\* Variant: detection without the File row.
ScanAddFileSkipped(t) ==
    /\ scan[t].pc = "add"
    /\ scan' = [scan EXCEPT ![t].pc = "detect"]
    /\ UNCHANGED <<ninput, fs, rootExists, indexDir, db, abort_scan_flag, nscans, out,
                   reply, alive, nread, lastLine, stable, overlap, cancelledEnd, handled>>
\* calculate_hash and db.add_file, with the mtime read before the check.
\* calculate_hash catches the error of a file that cannot be read and
\* returns "".
ScanAddFile(t) ==
    /\ scan[t].pc = "add"
    /\ db' = AddFile(db, CurrentFile(t),
                     IF CurrentFile(t) \in DOMAIN fs
                     THEN CalculateHash(CurrentFile(t)) ELSE NoHash,
                     scan[t].mtime)
    /\ scan' = [scan EXCEPT ![t].pc = "detect"]
    /\ UNCHANGED <<ninput, fs, rootExists, indexDir, abort_scan_flag, nscans, out,
                   reply, alive, nread, lastLine, stable, overlap, cancelledEnd, handled>>

\* processor.process_image and, for a non-empty result, db.add_faces; an
\* exception of the provider is caught and logged, and process_image
\* itself returns [] for a file it cannot read.
ScanDetect(t) ==
    /\ scan[t].pc = "detect"
    /\ LET path == CurrentFile(t)
           faces == IF path \in DOMAIN fs THEN ProcessImage(path) ELSE <<>>
       IN  db' = IF ~ProviderRaises(path) /\ faces # <<>>
                 THEN AddFaces(db, path, faces)
                 ELSE db
    /\ scan' = [scan EXCEPT ![t].processed_files = @ + 1,
                            ![t].idx = @ + 1,
                            ![t].detected = @ \cup {CurrentFile(t)},
                            ![t].pc = "loop"]
    /\ handled' = [handled EXCEPT ![CurrentFile(t)] = scan[t].mtime]
    /\ UNCHANGED <<ninput, fs, rootExists, indexDir, abort_scan_flag, nscans, out,
                   reply, alive, nread, lastLine, stable, overlap, cancelledEnd>>

\* After the loop: the final progress callback.
ScanFinal(t) ==
    /\ scan[t].pc = "final"
    /\ out' = Emit(t, Progress(t, scan[t].processed_files,
                                   Len(scan[t].image_files), CompleteMarker))
    /\ scan' = [scan EXCEPT ![t].pc = "status"]
    /\ UNCHANGED <<ninput, fs, rootExists, indexDir, db, abort_scan_flag, nscans,
                   reply, alive, nread, lastLine, stable, overlap, cancelledEnd, handled>>

\* Variant: run_scan returns without printing a status.
ScanStatusSilent(t) ==
    /\ scan[t].pc = "status"
    /\ out' = out
    /\ stable' = (stable \/ (~scan[t].broke /\ scan[t].undisturbed
                                /\ \A u \in Threads \ {t} : ~Active(u)))
    /\ cancelledEnd' = (cancelledEnd \/ abort_scan_flag)
    /\ scan' = [scan EXCEPT ![t] = [IdleThread EXCEPT !.pc = "done"]]
    /\ UNCHANGED <<ninput, fs, rootExists, indexDir, db, abort_scan_flag, nscans,
                   reply, alive, nread, lastLine, overlap, handled>>
\* Back in run_scan: the flag, read again, picks the terminal status.
ScanStatus(t) ==
    /\ scan[t].pc = "status"
    /\ out' = Emit(t, Terminal(t, IF abort_scan_flag THEN "cancelled" ELSE "complete"))
    /\ stable' = (stable \/ (~scan[t].broke /\ scan[t].undisturbed
                                /\ \A u \in Threads \ {t} : ~Active(u)))
    /\ cancelledEnd' = (cancelledEnd \/ abort_scan_flag)
    /\ scan' = [scan EXCEPT ![t] = [IdleThread EXCEPT !.pc = "done"]]
    /\ UNCHANGED <<ninput, fs, rootExists, indexDir, db, abort_scan_flag, nscans,
                   reply, alive, nread, lastLine, overlap, handled>>

ScanStep(t) ==
    \/ RunScanBegin(t)
    \/ ScanEnumerate(t)
    \/ ScanBoundary(t)
    \/ ScanCheck(t)
    \/ ScanAddFile(t)
    \/ ScanDetect(t)
    \/ ScanFinal(t)
    \/ ScanStatus(t)

\* -------------------------------------------------------------- environment

\* Something outside the program rewrites an image: its modification time
\* moves to a value no file has had.
MaxOf(S) == CHOOSE x \in S : \A y \in S : y <= x
Touch(path) ==
    /\ path \in DOMAIN fs
    /\ LET now == MaxOf({fs[p] : p \in DOMAIN fs}) + 1
       IN  /\ now <= MaxMtime
           /\ fs' = [fs EXCEPT ![path] = now]
    /\ stable' = FALSE
    /\ scan' = [t \in Threads |-> [scan[t] EXCEPT !.undisturbed = FALSE,
                                                  !.quiet = FALSE]]
    /\ UNCHANGED <<ninput, rootExists, indexDir, db, abort_scan_flag, nscans, out,
                   reply, alive, nread, lastLine, overlap, cancelledEnd, handled>>

\* Something outside the program deletes an image while a scan has
\* enumerated the directory and not yet left the loop.
Remove(path) ==
    /\ path \in DOMAIN fs
    /\ \E t \in Threads : scan[t].pc \in {"loop", "check", "add", "detect"}
    /\ fs' = [p \in (DOMAIN fs) \ {path} |-> fs[p]]
    /\ stable' = FALSE
    /\ scan' = [t \in Threads |-> [scan[t] EXCEPT !.undisturbed = FALSE,
                                                  !.quiet = FALSE]]
    /\ UNCHANGED <<ninput, rootExists, indexDir, db, abort_scan_flag, nscans, out,
                   reply, alive, nread, lastLine, overlap, cancelledEnd, handled>>

\* ------------------------------------------------------------ command loop

\* A line of stdin: text json.loads accepts, with its action and arguments,
\* or text it rejects.
Line(action, args) == [json |-> TRUE, action |-> action, args |-> args]
InvalidLine == [json |-> FALSE, action |-> "", args |-> <<>>]
NoLine == [json |-> FALSE, action |-> "(none)", args |-> <<>>]

\* person_id / keep_id / merge_id values a client sends; 3 names no person
\* the bounded runs create.
PersonIdArgs == {1, 2, 3}
NewNames == {<<"Alice">>}

\* sys.stdin.readline() returned a line and the loop is about to dispatch it.
Reads(line) ==
    /\ alive
    /\ nread < ninput
    /\ nread' = nread + 1
    /\ lastLine' = line

\* Database(db_path) opens <root>/.faceframe/index.db; sqlite3.connect raises
\* when the directory is missing.  The exception is not a JSONDecodeError:
\* the outer `except Exception` logs it and the loop goes on.
StoreOpens == indexDir

\* print(json.dumps(...), flush=True) in a command's handler.
Says(line) == <<line>>

\* SCAN with a path: threading.Thread(target=run_scan).start().  The handler
\* starts the thread whether or not a scan is running; a client that keeps
\* the contract (one scan at a time) sends SCAN only when none is.
StartThread ==
    /\ nscans < MaxScans
    /\ nscans' = nscans + 1
    /\ scan' = [scan EXCEPT ![nscans + 1].pc = "spawned"]
    /\ overlap' = (overlap \/ \E u \in Threads : Active(u))
    /\ reply' = <<>>
    /\ UNCHANGED <<ninput, fs, rootExists, indexDir, db, abort_scan_flag, out, stable,
                   cancelledEnd, handled>>

CmdScan ==
    /\ Reads(Line("SCAN", <<>>))
    /\ alive' = TRUE
    /\ \A u \in Threads : ~Active(u)
    /\ StartThread

CmdScanWhileActive ==
    /\ Reads(Line("SCAN", <<>>))
    /\ alive' = TRUE
    /\ \E u \in Threads : Active(u)
    /\ StartThread

CmdCancelScan ==
    /\ Reads(Line("CANCEL_SCAN", <<>>))
    /\ alive' = TRUE
    /\ abort_scan_flag' = TRUE
    /\ scan' = [t \in Threads |->
                  IF Active(t) /\ scan[t].cancelAt = -1
                  THEN [scan[t] EXCEPT !.cancelAt = IF InFlight(t) THEN scan[t].idx ELSE 0]
                  ELSE scan[t]]
    /\ reply' = <<>>
    /\ UNCHANGED <<ninput, fs, rootExists, indexDir, db, nscans, out, stable, overlap,
                   cancelledEnd, handled>>

CmdCluster ==
    /\ Reads(Line("CLUSTER", <<>>))
    /\ alive' = TRUE
    /\ LET res == RunClustering(db)
       IN  IF StoreOpens
           THEN /\ db' = res.db
                /\ reply' = Says([status |-> "clustered", count |-> res.count])
           ELSE /\ db' = db
            /\ reply' = <<>>
    /\ UNCHANGED <<ninput, fs, rootExists, indexDir, abort_scan_flag, nscans, scan,
                   out, stable, overlap, cancelledEnd, handled>>

UnclusteredData(rows) ==
    [i \in 1..Len(rows) |->
        [id |-> rows[i].id, file_path |-> rows[i].file_path,
         bbox |-> rows[i].bbox, thumbnail |-> rows[i].thumbnail_path]]

CmdGetUnclustered ==
    /\ Reads(Line("GET_UNCLUSTERED", <<>>))
    /\ alive' = TRUE
    /\ reply' = IF StoreOpens
              THEN Says([status |-> "unclustered",
                                data |-> UnclusteredData(GetUnclusteredFacesInfo(db))])
              ELSE <<>>
    /\ UNCHANGED <<ninput, fs, rootExists, indexDir, db, abort_scan_flag, nscans, scan,
                   out, stable, overlap, cancelledEnd, handled>>

\* "name": p[1] or f"Person {p[0]}"
PersonsData(rows) ==
    [i \in 1..Len(rows) |->
        [id |-> rows[i].id,
         name |-> IF rows[i].name = <<>> THEN <<"Person", rows[i].id>> ELSE rows[i].name,
         thumbnail |-> rows[i].thumbnail_path]]

CmdGetPersons ==
    /\ Reads(Line("GET_PERSONS", <<>>))
    /\ alive' = TRUE
    /\ reply' = IF StoreOpens
              THEN Says([status |-> "persons", data |-> PersonsData(GetPersons(db))])
              ELSE <<>>
    /\ UNCHANGED <<ninput, fs, rootExists, indexDir, db, abort_scan_flag, nscans, scan,
                   out, stable, overlap, cancelledEnd, handled>>

CmdGetPhotosByPerson(person_id) ==
    /\ Reads(Line("GET_PHOTOS_BY_PERSON", <<person_id>>))
    /\ alive' = TRUE
    /\ reply' = IF StoreOpens
              THEN Says([status |-> "photos_by_person", person_id |-> person_id,
                                photos |-> GetPhotosByPerson(db, person_id)])
              ELSE <<>>
    /\ UNCHANGED <<ninput, fs, rootExists, indexDir, db, abort_scan_flag, nscans, scan,
                   out, stable, overlap, cancelledEnd, handled>>

CmdRenamePerson(person_id, new_name) ==
    /\ Reads(Line("RENAME_PERSON", <<person_id, new_name>>))
    /\ alive' = TRUE
    /\ IF StoreOpens
       THEN /\ db' = RenamePerson(db, person_id, new_name)
            /\ reply' = Says([status |-> "person_renamed", person_id |-> person_id,
                                   new_name |-> new_name])
       ELSE /\ db' = db
            /\ reply' = <<>>
    /\ UNCHANGED <<ninput, fs, rootExists, indexDir, abort_scan_flag, nscans, scan,
                   out, stable, overlap, cancelledEnd, handled>>

\* The handler takes any two truthy ids: it does not look either up and
\* does not compare them.
CmdMergePersons(keep_id, merge_id) ==
    /\ Reads(Line("MERGE_PERSONS", <<keep_id, merge_id>>))
    /\ alive' = TRUE
    /\ IF StoreOpens
       THEN /\ db' = MergePersons(db, keep_id, merge_id)
            /\ reply' = Says([status |-> "persons_merged", keep_id |-> keep_id,
                                   merge_id |-> merge_id])
       ELSE /\ db' = db
            /\ reply' = <<>>
    /\ UNCHANGED <<ninput, fs, rootExists, indexDir, abort_scan_flag, nscans, scan,
                   out, stable, overlap, cancelledEnd, handled>>

\* Variant: the loop does not read PING while a scan runs.
CmdPingAfterScan ==
    /\ \A u \in Threads : ~Active(u)
    /\ Reads(Line("PING", <<>>))
    /\ alive' = TRUE
    /\ reply' = Says([status |-> "pong"])
    /\ UNCHANGED <<ninput, fs, rootExists, indexDir, db, abort_scan_flag, nscans, scan,
                   out, stable, overlap, cancelledEnd, handled>>
CmdPing ==
    /\ Reads(Line("PING", <<>>))
    /\ alive' = TRUE
    /\ reply' = Says([status |-> "pong"])
    /\ UNCHANGED <<ninput, fs, rootExists, indexDir, db, abort_scan_flag, nscans, scan,
                   out, stable, overlap, cancelledEnd, handled>>

\* Variant: the decode error leaves the loop.
CmdInvalidJsonEndsSession ==
    /\ Reads(InvalidLine)
    /\ alive' = FALSE
    /\ reply' = <<>>
    /\ UNCHANGED <<ninput, fs, rootExists, indexDir, db, abort_scan_flag, nscans, scan,
                   out, stable, overlap, cancelledEnd, handled>>
\* json.loads raises JSONDecodeError: logged, nothing printed, next line.
CmdInvalidJson ==
    /\ Reads(InvalidLine)
    /\ alive' = TRUE
    /\ reply' = <<>>
    /\ UNCHANGED <<ninput, fs, rootExists, indexDir, db, abort_scan_flag, nscans, scan,
                   out, stable, overlap, cancelledEnd, handled>>

\* readline() returned "": `break`.
CmdEof ==
    /\ alive
    /\ alive' = FALSE
    /\ UNCHANGED <<ninput, fs, rootExists, indexDir, db, abort_scan_flag, nscans, scan,
                   out, reply, nread, lastLine, stable, overlap, cancelledEnd, handled>>

\* ----------------------------------------------------------- specifications

NoThreads == [t \in Threads |-> IdleThread]

\* A session on a root that was never indexed: NumFiles images, no
\* .faceframe directory.
Init ==
    /\ fs = [p \in Files |-> 1]
    /\ rootExists = TRUE
    /\ indexDir = FALSE
    /\ db = EmptyDb
    /\ abort_scan_flag = FALSE
    /\ nscans = 0
    /\ scan = NoThreads
    /\ out = [t \in Threads |-> <<>>]
    /\ reply = <<>>
    /\ alive = TRUE
    /\ ninput = MaxCmds
    /\ nread = 0
    /\ lastLine = NoLine
    /\ stable = FALSE
    /\ overlap = FALSE
    /\ cancelledEnd = FALSE
    /\ handled = [p \in Files |-> 0]

\* Scanning: the client sends SCAN, CANCEL_SCAN, PING and broken lines while
\* scan threads run and images are rewritten.
Next ==
    \/ CmdScan
    \/ CmdCancelScan
    \/ CmdPing
    \/ CmdInvalidJson
    \/ CmdEof
    \/ \E t \in Threads : ScanStep(t)
    \/ \E path \in Files : Touch(path)

Spec == Init /\ [][Next]_vars

\* End to end on a fresh root: the client scans (one scan at a time), then
\* clusters, renames, merges and queries, in any order and at any time.
NextPeople ==
    \/ CmdScan
    \/ CmdCluster
    \/ CmdGetUnclustered
    \/ CmdGetPersons
    \/ \E person_id \in PersonIdArgs : CmdGetPhotosByPerson(person_id)
    \/ \E person_id \in PersonIdArgs, new_name \in NewNames :
          CmdRenamePerson(person_id, new_name)
    \/ \E keep_id \in PersonIdArgs, merge_id \in PersonIdArgs :
          CmdMergePersons(keep_id, merge_id)
    \/ \E t \in Threads : ScanStep(t)

SpecPeople == Init /\ [][NextPeople]_vars

\* A session on a root indexed earlier: index.db already holds up to MaxRows
\* unclustered face rows.  The file outlives the sessions and the program
\* versions that wrote it (get_unclustered_faces still documents the column
\* as "embedding_bytes"), which is what the parse loop of run_clustering
\* guards against: a row's embedding may be text that does not decode.
LegacyFace(i, e) ==
    [id |-> i,
     file_path |-> ((i - 1) % NumFiles) + 1,
     embedding |-> e,
     bbox |-> <<0, 0, 1, 1>>,
     thumbnail_path |-> <<"thumb", ((i - 1) % NumFiles) + 1, i>>,
     person_id |-> NoPerson]
LegacyDb(es) ==
    [files |-> [p \in Files |-> [hash |-> CalculateHash(p), modified_time |-> 1]],
     faces |-> [i \in 1..Len(es) |-> LegacyFace(i, es[i])],
     persons |-> <<>>,
     seq |-> 0]
LegacyPool == {JsonDumps(EA), JsonDumps(EB), JsonDumps(EC), BadEmbedding}
LegacyEmbeddings == UNION {[1..n -> LegacyPool] : n \in 0..MaxRows}

InitCluster ==
    /\ fs = [p \in Files |-> 1]
    /\ rootExists = TRUE
    /\ indexDir = TRUE
    /\ db \in {LegacyDb(es) : es \in LegacyEmbeddings}
    /\ abort_scan_flag = FALSE
    /\ nscans = 0
    /\ scan = NoThreads
    /\ out = [t \in Threads |-> <<>>]
    /\ reply = <<>>
    /\ alive = TRUE
    /\ ninput = MaxClusterCmds
    /\ nread = 0
    /\ lastLine = NoLine
    /\ stable = FALSE
    /\ overlap = FALSE
    /\ cancelledEnd = FALSE
    /\ handled = [p \in Files |-> 0]

\* The client clusters and merges.
NextCluster ==
    \/ CmdCluster
    \/ \E keep_id \in PersonIdArgs, merge_id \in PersonIdArgs :
          CmdMergePersons(keep_id, merge_id)

SpecCluster == InitCluster /\ [][NextCluster]_vars

\* A session in which things go wrong under the scan: the root named by
\* SCAN may not exist, and images are deleted while a scan runs.  A thread
\* that has been started keeps running until run_scan returns (the threads
\* are not daemons: the interpreter waits for them after EOF).
InitFaults ==
    /\ rootExists \in BOOLEAN
    /\ fs = IF rootExists THEN [p \in Files |-> 1] ELSE <<>>
    /\ indexDir = FALSE
    /\ db = EmptyDb
    /\ abort_scan_flag = FALSE
    /\ nscans = 0
    /\ scan = NoThreads
    /\ out = [t \in Threads |-> <<>>]
    /\ reply = <<>>
    /\ alive = TRUE
    /\ ninput = MaxFaultCmds
    /\ nread = 0
    /\ lastLine = NoLine
    /\ stable = FALSE
    /\ overlap = FALSE
    /\ cancelledEnd = FALSE
    /\ handled = [p \in Files |-> 0]

NextFaults ==
    \/ CmdScan
    \/ CmdCancelScan
    \/ CmdEof
    \/ \E t \in Threads : ScanStep(t)
    \/ \E path \in Files : Remove(path)

SpecFaults ==
    InitFaults /\ [][NextFaults]_vars /\ \A t \in Threads : WF_vars(ScanStep(t))

\* A session whose client does not serialize its SCAN requests: the handler
\* starts a thread for every SCAN, whether or not a scan is running.
InitOverlap ==
    /\ fs = [p \in Files |-> 1]
    /\ rootExists = TRUE
    /\ indexDir = FALSE
    /\ db = EmptyDb
    /\ abort_scan_flag = FALSE
    /\ nscans = 0
    /\ scan = NoThreads
    /\ out = [t \in Threads |-> <<>>]
    /\ reply = <<>>
    /\ alive = TRUE
    /\ ninput = MaxOverlapCmds
    /\ nread = 0
    /\ lastLine = NoLine
    /\ stable = FALSE
    /\ overlap = FALSE
    /\ cancelledEnd = FALSE
    /\ handled = [p \in Files |-> 0]

NextOverlap ==
    \/ CmdScan
    \/ CmdScanWhileActive
    \/ CmdCancelScan
    \/ \E t \in Threads : ScanStep(t)

SpecOverlap == InitOverlap /\ [][NextOverlap]_vars

\* A session that scans again after images were rewritten, on a root whose
\* images all show a face or on one with images the provider fails on.
InitRescan ==
    /\ fs \in {[p \in Files |-> 1], [p \in HardFiles |-> 1]}
    /\ rootExists = TRUE
    /\ indexDir = FALSE
    /\ db = EmptyDb
    /\ abort_scan_flag = FALSE
    /\ nscans = 0
    /\ scan = NoThreads
    /\ out = [t \in Threads |-> <<>>]
    /\ reply = <<>>
    /\ alive = TRUE
    /\ ninput = MaxCmds
    /\ nread = 0
    /\ lastLine = NoLine
    /\ stable = FALSE
    /\ overlap = FALSE
    /\ cancelledEnd = FALSE
    /\ handled = [p \in Files \cup HardFiles |-> 0]

NextRescan ==
    \/ CmdScan
    \/ CmdCluster
    \/ \E t \in Threads : ScanStep(t)
    \/ \E path \in Files \cup HardFiles : Touch(path)

SpecRescan == InitRescan /\ [][NextRescan]_vars

\* =============================================================== properties

\* Rows already in the store are still there after the step (a face may
\* have changed person_id, nothing else).
SameFace(a, b) == [a EXCEPT !.person_id = NoPerson] = [b EXCEPT !.person_id = NoPerson]
RowsPersist ==
    /\ \A p \in DOMAIN db.files : p \in DOMAIN db'.files
    /\ Len(db'.faces) >= Len(db.faces)
    /\ \A i \in 1..Len(db.faces) : SameFace(db'.faces[i], db.faces[i])

CancelHaltsAfterInFlightFile ==
    \A t \in Threads :
        (InFlight(t) /\ scan[t].cancelAt # -1) => scan[t].idx = scan[t].cancelAt

\* C8: after a scan has ended cancelled, no File or Face row is ever removed,
\* and a scan begun afterwards passes a file to the provider only if no scan
\* processed it before or its modification time differs from the one its
\* last processing read.
CancelledScanResumes ==
    [][(cancelledEnd /\ ~overlap) =>
          /\ RowsPersist
          /\ \A t \in Threads :
                (scan[t].resumed /\ scan[t].pc = "detect" /\ scan'[t].pc # "detect")
                   => \/ handled[CurrentFile(t)] = 0
                      \/ handled[CurrentFile(t)] # scan[t].mtime]_vars

\* A scan begun after a cancelled one has skipped a file the cancelled scan
\* had processed and is about to run detection on one it had not reached.
CancelledScanResumesWitness ==
    \E t \in Threads :
        /\ cancelledEnd
        /\ scan[t].resumed
        /\ scan[t].pc = "detect"
        /\ scan[t].processed_files >= 1
        /\ scan[t].detected = {}
        /\ handled[CurrentFile(t)] = 0
        /\ \E p \in Files : handled[p] # 0 /\ p \in DOMAIN db.files

\* C9: the step that reads a line json.loads rejects prints nothing and
\* leaves the loop running, ready to read the next line; the step that
\* reads PING prints exactly the pong line.
MalformedLineIgnored ==
    [][/\ (nread' # nread /\ ~lastLine'.json)
             => (reply' = <<>> /\ out' = out /\ alive' /\ db' = db)
       /\ (nread' # nread /\ lastLine'.action = "PING")
             => (reply' = <<[status |-> "pong"]>> /\ alive')]_vars

\* A rejected line has just been read and the loop can read a PING next.
MalformedLineIgnoredWitness ==
    /\ lastLine = InvalidLine
    /\ alive
    /\ reply = <<>>
    /\ ENABLED CmdPing

\* The step on which the command loop handles a line with this action.
Handles(action) == nread' # nread /\ lastLine'.action = action

FaceCount(d, person_id) == GetPersonFaceCount(d, person_id)

\* C2: a MERGE_PERSONS step with keep # merge leaves no face with person_id
\* merge and no person row merge, and keep's face count after it is the sum
\* of the two counts before it.
MergeIntegrity ==
    [][\A keep \in PersonIdArgs, merge \in PersonIdArgs :
          (/\ Handles("MERGE_PERSONS")
           /\ lastLine'.args = <<keep, merge>>
           /\ keep # merge
           /\ StoreOpens)
             => /\ FaceCount(db', merge) = 0
                /\ merge \notin PersonIds(db')
                /\ FaceCount(db', keep) = FaceCount(db, keep) + FaceCount(db, merge)]_vars

\* Two persons of two faces each have been merged into one of four.
MergeIntegrityWitness ==
    /\ lastLine.action = "MERGE_PERSONS"
    /\ lastLine.args[1] # lastLine.args[2]
    /\ PersonIds(db) = {lastLine.args[1]}
    /\ db.seq = 2
    /\ FaceCount(db, lastLine.args[1]) = 4

\* C4: every person row a CLUSTER step adds has at least 2 faces when the
\* step is over.
ClusterMinimumSize ==
    [][Handles("CLUSTER")
          => \A p \in PersonIds(db') \ PersonIds(db) : FaceCount(db', p) >= 2]_vars

\* A run has created a person and left a face with a parsed embedding out.
ClusterMinimumSizeWitness ==
    /\ lastLine.action = "CLUSTER"
    /\ reply = Says([status |-> "clustered", count |-> 1])
    /\ Len(db.persons) = 1
    /\ \E i \in 1..Len(db.faces) :
          Parses(db.faces[i].embedding) /\ db.faces[i].person_id = NoPerson

\* Faces (by id) that have no person before the step and one after it.
Gained ==
    {db.faces[i].id : i \in {j \in 1..Len(db.faces) :
        db.faces[j].person_id = NoPerson /\ db'.faces[j].person_id # NoPerson}}

\* Faces (by id) whose own embedding the run of store d labels non-noise:
\* the k-th label belongs to the k-th row whose embedding parses.
OwnLabelNonNoise(d) ==
    LET in == ClusterInput(d)
        Ok(r) == Parses(r.embedding)
        own == SelectSeq(in.rows, Ok)
    IN  {own[k].id : k \in {j \in 1..Len(in.labels) : in.labels[j] # NoiseLabel}}

\* C5: the faces that gain a person on a CLUSTER step are exactly those
\* whose own embedding received a non-noise label.
NoiseNeverAssigned ==
    [][(Handles("CLUSTER") /\ StoreOpens) => Gained = OwnLabelNonNoise(db)]_vars

\* C6: a face that is unclustered and whose embedding does not parse is
\* still unclustered after a CLUSTER step.
UnparsableStaysUnclustered ==
    [][Handles("CLUSTER")
          => \A i \in 1..Len(db.faces) :
                (db.faces[i].person_id = NoPerson /\ ~Parses(db.faces[i].embedding))
                   => db'.faces[i].person_id = NoPerson]_vars

\* C3: every face with a person_id references a row of persons.
PersonIdsReferenceExisting ==
    \A i \in 1..Len(db.faces) :
        db.faces[i].person_id # NoPerson => db.faces[i].person_id \in PersonIds(db)

\* The scenario of C10 after SCAN: the scan has ended complete, the store
\* holds three faces from three files, none clustered, no person; the first
\* two embeddings are within eps of each other, the third of neither.
ScenarioScanned ==
    /\ \A t \in Threads : ~Active(t)
    /\ \E t \in Threads :
          out[t] # <<>> /\ out[t][Len(out[t])] = Terminal(t, "complete")
    /\ Len(db.faces) = 3
    /\ db.persons = <<>>
    /\ \A i \in 1..3 : IsUnclustered(db.faces[i]) /\ Parses(db.faces[i].embedding)
    /\ Cardinality({db.faces[i].file_path : i \in 1..3}) = 3
    /\ LET e(i) == JsonLoads(db.faces[i].embedding)
       IN  WithinEps(e(1), e(2)) /\ ~WithinEps(e(1), e(3)) /\ ~WithinEps(e(2), e(3))

\* The scenario after CLUSTER: one person, holding the first two faces; the
\* third face has none.
ScenarioClustered ==
    /\ Len(db.faces) = 3
    /\ Len(db.persons) = 1
    /\ db.faces[1].person_id = db.persons[1].id
    /\ db.faces[2].person_id = db.persons[1].id
    /\ db.faces[3].person_id = NoPerson
    /\ FaceCount(db, db.persons[1].id) = 2

\* C10: from the scanned scenario a CLUSTER step leads to the clustered one
\* and reports one person; there GET_UNCLUSTERED answers with exactly the
\* third face and GET_PERSONS with exactly one entry.
EndToEnd ==
    [][/\ (ScenarioScanned /\ Handles("CLUSTER"))
             => /\ ScenarioClustered'
                /\ reply' = Says([status |-> "clustered", count |-> 1])
       /\ (ScenarioClustered /\ Handles("GET_UNCLUSTERED"))
             => /\ Len(reply') = 1
                /\ reply'[1].status = "unclustered"
                /\ Len(reply'[1].data) = 1
                /\ reply'[1].data[1].id = db.faces[3].id
       /\ (ScenarioClustered /\ Handles("GET_PERSONS"))
             => /\ Len(reply') = 1
                /\ reply'[1].status = "persons"
                /\ Len(reply'[1].data) = 1
                /\ reply'[1].data[1].id = db.persons[1].id]_vars

\* SCAN, CLUSTER and GET_UNCLUSTERED have been handled in the scenario.
EndToEndWitness ==
    /\ ScenarioClustered
    /\ \E t \in Threads :
          out[t] # <<>> /\ out[t][Len(out[t])] = Terminal(t, "complete")
    /\ lastLine.action = "GET_UNCLUSTERED"
    /\ reply # <<>>
    /\ Len(reply[1].data) = 1
IsTerminal(event) == event.status \in {"complete", "cancelled", "error"}
TerminalCount(t) == Cardinality({i \in 1..Len(out[t]) : IsTerminal(out[t][i])})

\* C11: a scan thread started by SCAN eventually has printed a terminal
\* event and returned; a scan never has more than one terminal event, and
\* once it has one that event is the last line the scan printed.
ScanTerminates ==
    /\ \A t \in Threads :
          (scan[t].pc = "spawned") ~> (scan[t].pc = "done" /\ TerminalCount(t) = 1)
    /\ [](\A t \in Threads :
            /\ TerminalCount(t) <= 1
            /\ TerminalCount(t) = 1 => IsTerminal(out[t][Len(out[t])])
            /\ scan[t].pc = "done" => TerminalCount(t) = 1)

\* A scan that printed started and progress events has ended with its
\* terminal event, and the session went on to a second scan.
ScanTerminatesWitness ==
    /\ scan[1].pc = "done"
    /\ Len(out[1]) > 2
    /\ IsTerminal(out[1][Len(out[1])])
    /\ scan[2].pc = "done"
    /\ IsTerminal(out[2][Len(out[2])])

\* The commands that run on the command loop's thread against the store.
SyncActions ==
    {"CLUSTER", "GET_UNCLUSTERED", "GET_PERSONS", "GET_PHOTOS_BY_PERSON",
     "RENAME_PERSON", "MERGE_PERSONS"}

\* C12: the step that handles a synchronous command whose store cannot be
\* opened prints one line with status error and leaves the loop running.
StoreErrorSurfaces ==
    [][(nread' # nread /\ lastLine'.action \in SyncActions /\ ~StoreOpens)
          => /\ alive'
             /\ Len(reply') = 1
             /\ reply'[1].status = "error"]_vars

\* C13: a step a scan takes while it handles a file (reading its
\* modification time, hashing it, detecting faces in it) never ends the
\* scan and prints nothing: the scan goes on with this file or the next.
PerFileErrorsRecoverable ==
    [][\A t \in Threads :
          InFlight(t) => /\ scan'[t].pc \in {"loop", "check", "add", "detect"}
                         /\ out'[t] = out[t]]_vars

\* C14: the first step of a scan whose root does not exist creates neither
\* the root nor anything under it and enumerates nothing, and the scan does
\* not print complete.
MissingRootRejected ==
    [][\A t \in Threads :
          (scan[t].pc = "spawned" /\ ~rootExists /\ scan'[t].pc # "spawned")
             => /\ ~rootExists'
                /\ ~indexDir'
                /\ scan'[t].image_files = <<>>
                /\ \A i \in 1..Len(out'[t]) : out'[t][i].status # "complete"]_vars

\* The progress events of a scan that carry the completion marker.
FinalProgress(t) ==
    {i \in 1..Len(out[t]) : out[t][i].status = "progress" /\ out[t][i].file = CompleteMarker}

\* C15: a scan prints at most one progress event with the completion
\* marker, and its processed count equals its total.
FinalProgressCountsAll ==
    \A t \in Threads :
        /\ Cardinality(FinalProgress(t)) <= 1
        /\ \A i \in FinalProgress(t) : out[t][i].current = out[t][i].total

\* C18: the step that prints a scan's terminal status prints cancelled only
\* if the loop was left at the cancellation check, and complete only if the
\* loop went through every enumerated file.
TerminalStatusTellsOutcome ==
    [][\A t \in Threads :
          (scan[t].pc = "status" /\ scan'[t].pc = "done")
             => LET event == out'[t][Len(out'[t])]
                IN  /\ event.status = "cancelled" => scan[t].broke
                    /\ event.status = "complete"
                          => /\ ~scan[t].broke
                             /\ scan[t].processed_files = Len(scan[t].image_files)]_vars

\* C16: whenever a scan is active and the session has input left, the loop
\* can handle a PING at once; the step that handles it prints pong and
\* leaves every scan where it was.
PingServedDuringScan ==
    /\ []((alive /\ nread < ninput /\ \E t \in Threads : Active(t))
            => ENABLED CmdPing)
    /\ [][(Handles("PING") /\ \E t \in Threads : Active(t))
            => /\ reply' = Says([status |-> "pong"])
               /\ alive'
               /\ scan' = scan
               /\ out' = out]_vars

\* PING has been answered while a scan was working on a file, after the
\* scan had handled another.
PingServedDuringScanWitness ==
    /\ lastLine.action = "PING"
    /\ reply = Says([status |-> "pong"])
    /\ \E t \in Threads :
          InFlight(t) /\ scan[t].processed_files >= 1 /\ TerminalCount(t) = 0

\* The per-file progress events a scan has printed, in the order printed.
IsFileProgress(event) == event.status = "progress" /\ event.file # CompleteMarker
FileProgress(t) == SelectSeq(out[t], IsFileProgress)

\* C17: for a scan inside or just past its loop, the k-th per-file progress
\* event names the k-th enumerated file, counts the k-1 files handled
\* before it and carries the number of enumerated files as total; the
\* event of a file is printed before the file is handled.
ProgressInEnumerationOrder ==
    \A t \in Threads :
        scan[t].pc \in {"loop", "check", "add", "detect", "final", "status"}
           => LET events == FileProgress(t)
              IN  /\ \A k \in 1..Len(events) :
                        /\ events[k].file = Basename(scan[t].image_files[k])
                        /\ events[k].current = k - 1
                        /\ events[k].current <= events[k].total
                        /\ events[k].total = Len(scan[t].image_files)
                  /\ InFlight(t) => /\ Len(events) = scan[t].idx
                                     /\ scan[t].processed_files = scan[t].idx - 1
                  /\ scan[t].pc = "loop" => /\ Len(events) = scan[t].idx - 1
                                             /\ scan[t].processed_files = scan[t].idx - 1

\* A scan has gone through all files, skipping some as unchanged and
\* processing others, and is about to print the final progress event.
ProgressInEnumerationOrderWitness ==
    \E t \in Threads :
        /\ scan[t].pc = "final"
        /\ ~scan[t].broke
        /\ Len(FileProgress(t)) = NumFiles
        /\ scan[t].detected # {}
        /\ Cardinality(scan[t].detected) < NumFiles

\* C19: a step of a scan leaves the persons table as it is, changes the
\* person_id of no existing face and inserts faces without a person; a
\* person row is only ever added by a step that handles CLUSTER.
ScanLeavesPersonsAlone ==
    [][/\ (nread' = nread)
             => /\ db'.persons = db.persons
                /\ db'.seq = db.seq
                /\ Len(db'.faces) >= Len(db.faces)
                /\ \A i \in 1..Len(db.faces) :
                      db'.faces[i].person_id = db.faces[i].person_id
                /\ \A i \in (Len(db.faces) + 1)..Len(db'.faces) :
                      db'.faces[i].person_id = NoPerson
       /\ (db'.seq # db.seq) => Handles("CLUSTER")]_vars

\* A scan has inserted a face while a person with two faces existed.
ScanLeavesPersonsAloneWitness ==
    /\ Len(db.persons) = 1
    /\ Len(db.faces) = 3
    /\ FaceCount(db, db.persons[1].id) = 2
    /\ db.faces[3].person_id = NoPerson
    /\ \E t \in Threads : scan[t].pc = "loop" /\ scan[t].detected = {1, 2, 3}

\* C20: a CLUSTER step leaves every face that had a person exactly as it
\* was, and every person row that existed is still there, unchanged and in
\* its place.
ClusterLeavesAssignedAlone ==
    [][Handles("CLUSTER")
          => /\ \A i \in 1..Len(db.faces) :
                   db.faces[i].person_id # NoPerson => db'.faces[i] = db.faces[i]
             /\ Len(db'.persons) >= Len(db.persons)
             /\ \A j \in 1..Len(db.persons) : db'.persons[j] = db.persons[j]]_vars

\* A second clustering run has created a person beside the one the first
\* run created.
ClusterLeavesAssignedAloneWitness ==
    /\ lastLine.action = "CLUSTER"
    /\ reply = Says([status |-> "clustered", count |-> 1])
    /\ Len(db.persons) = 2
    /\ db.seq = 2
    /\ \A i \in 1..Len(db.faces) : db.faces[i].person_id # NoPerson

\* The unclustered rows of store d whose embedding parses, in order: row k
\* is the face whose embedding is the k-th point DBSCAN labels.
OwnRows(d) ==
    LET Ok(r) == Parses(r.embedding)
    IN  SelectSeq(GetUnclusteredFaces(d), Ok)

\* C21: a CLUSTER step adds as many person rows as the run has distinct
\* non-noise labels and reports that number; every face whose embedding got
\* a non-noise label has one of the new persons afterwards, two such faces
\* the same person exactly when their labels are equal.
OnePersonPerLabel ==
    [][(Handles("CLUSTER") /\ StoreOpens)
          => LET labels == ClusterInput(db).labels
                 own == OwnRows(db)
                 new == PersonIds(db') \ PersonIds(db)
                 clustered == {k \in 1..Len(labels) : labels[k] # NoiseLabel}
                 PersonOf(k) == db'.faces[own[k].id].person_id
             IN  /\ Cardinality(new) = Cardinality(UniqueLabels(labels))
                 /\ Len(db'.persons) = Len(db.persons) + Cardinality(new)
                 /\ reply' = Says([status |-> "clustered", count |-> Cardinality(new)])
                 /\ \A j \in clustered : PersonOf(j) \in new
                 /\ \A j \in clustered, k \in clustered :
                       (labels[j] = labels[k]) <=> (PersonOf(j) = PersonOf(k))]_vars

\* C22: a scan during which CANCEL_SCAN was handled (at any point after
\* its SCAN was handled and before its terminal event) does not print
\* complete.
CancelNeverLost ==
    [][\A t \in Threads :
          (scan[t].pc = "status" /\ scan'[t].pc = "done" /\ scan[t].cancelAt # -1)
             => out'[t][Len(out'[t])].status \in {"cancelled", "error"}]_vars

\* Face rows the store holds for a file.
FaceRowsOf(d, path) == {i \in 1..Len(d.faces) : d.faces[i].file_path = path}

\* C23: with scans running on top of each other (and no file rewritten),
\* no file has more Face rows than it has detections; and while a scan for
\* which CANCEL_SCAN was handled after it began is still active, the flag
\* stays set.
ConcurrentScansSound ==
    /\ [](\A path \in Files :
            Cardinality(FaceRowsOf(db, path)) <= Len(ProcessImage(path)))
    /\ [][(/\ abort_scan_flag
            /\ \E t \in Threads :
                  /\ scan[t].pc \notin {"idle", "spawned", "done"}
                  /\ scan[t].cancelAt # -1
                  /\ scan'[t].pc # "done")
             => abort_scan_flag']_vars

\* C24: when a scan passes a file to the provider, the file's row, with
\* the modification time the scan read, is already in the store; a file on
\* which the provider raises or finds no face keeps its row and has no Face
\* row afterwards, and it is passed to the provider only if no scan
\* processed it before or its modification time differs from the one its
\* last processing read.
FailedFileRecordedAsScanned ==
    [][\A t \in Threads :
          (scan[t].pc = "detect" /\ scan'[t].pc # "detect")
             => LET path == CurrentFile(t)
                IN  /\ path \in DOMAIN db.files
                    /\ db.files[path].modified_time = scan[t].mtime
                    /\ (ProviderRaises(path) \/ ProcessImage(path) = <<>>)
                          => /\ path \in DOMAIN db'.files
                             /\ FaceRowsOf(db', path) = {}
                             /\ handled[path] # scan[t].mtime]_vars

\* A second scan has gone through the directory and skipped both the file
\* on which the provider raised and the one without a face.
FailedFileRecordedAsScannedWitness ==
    \E t \in Threads :
        /\ nscans = 2
        /\ scan[t].pc = "final"
        /\ ~scan[t].broke
        /\ scan[t].detected = {}
        /\ scan[t].processed_files = Cardinality(HardFiles)
        /\ \E p \in DOMAIN db.files : ProviderRaises(p) /\ handled[p] # 0
        /\ \E p \in DOMAIN db.files :
              ~ProviderRaises(p) /\ ProcessImage(p) = <<>> /\ handled[p] # 0

\* C25: no step removes a File row or a Face row or changes a Face row
\* other than its person_id, and a step of a scan does not change that
\* either, so the Face rows of a file never become fewer; add_file leaves
\* the path with one row, holding the modification time the scan read; a
\* detection that does not raise appends one row per detected face, for
\* that file and without a person.
RescanKeepsEarlierFaces ==
    [][/\ \A path \in DOMAIN db.files : path \in DOMAIN db'.files
       /\ Len(db'.faces) >= Len(db.faces)
       /\ \A i \in 1..Len(db.faces) :
             /\ SameFace(db'.faces[i], db.faces[i])
             /\ (nread' = nread) => db'.faces[i] = db.faces[i]
       /\ \A path \in DOMAIN fs :
             Cardinality(FaceRowsOf(db', path)) >= Cardinality(FaceRowsOf(db, path))
       /\ \A t \in Threads :
             /\ (scan[t].pc = "add" /\ scan'[t].pc = "detect")
                   => /\ DOMAIN db'.files = (DOMAIN db.files) \cup {CurrentFile(t)}
                      /\ db'.files[CurrentFile(t)].modified_time = scan[t].mtime
             /\ (scan[t].pc = "detect" /\ scan'[t].pc # "detect"
                    /\ ~ProviderRaises(CurrentFile(t)))
                   => /\ Len(db'.faces) =
                            Len(db.faces) + Len(ProcessImage(CurrentFile(t)))
                      /\ \A i \in (Len(db.faces) + 1)..Len(db'.faces) :
                            /\ db'.faces[i].file_path = CurrentFile(t)
                            /\ db'.faces[i].person_id = NoPerson]_vars

\* A rewritten file has been scanned again: its earlier Face row still has
\* the person clustering gave it, beside the row of the new scan.
RescanKeepsEarlierFacesWitness ==
    \E path \in DOMAIN db.files :
        /\ db.files[path].modified_time > 1
        /\ \E i \in FaceRowsOf(db, path), j \in FaceRowsOf(db, path) :
              /\ i < j
              /\ db.faces[i].person_id # NoPerson
              /\ db.faces[j].person_id = NoPerson

=============================================================================
